---- MODULE Spec2Model ----
(***************************************************************************)
(* Typehero comment threads: the Pagination window, the Comments container *)
(* and its react-query cache, the Comment / SingleComment mutations, the   *)
(* CommentInput submit paths and the comment report dialog.                *)
(***************************************************************************)
EXTENDS Integers, Sequences, FiniteSets, TLC

VARIABLES
    \* Pagination, called as a pure function (SpecPagination)
    pgTotalPages, pgCurrentPage, pgPages, pgPc,
    \* the Comments container and the query cache it reads (Spec)
    root, page, text, prevData, createCall, cache, srvTotalPages, res, toast,
    \* one Comment of the list with its SingleComments (SpecComment)
    showReplies, isReplying, replyText, replyCall, isEditing, editCall,
    sessionUserId, authorId, readonly,
    \* two getPaginatedComments queries and their cache keys (SpecKeys)
    qA, qB, keyA, keyB, kPc,
    \* the session provider, read by CommentInput and by the server actions
    session,
    \* a CommentInput (SpecInput)
    value, commentMode, isSubmitting, loginNotices, inflight, gesture, settled,
    \* the report dialog of a comment (SpecReport)
    dialogOpen, form, formError, reportCalls, reported, reportToast, submitted, reportRes,
    \* the body of a comment (SpecExpand)
    expanded, bodyHeight, bodyEvent, readMore

pgVars == <<pgTotalPages, pgCurrentPage, pgPages, pgPc>>

cVars == <<root, page, text, prevData, createCall, cache, srvTotalPages, res, toast>>

\* who looks at the comment view: useSession's user id (0: none), the
\* comment.user.id of each rendered comment, the readonly prop
whoVars == <<sessionUserId, authorId, readonly>>

vVars == <<showReplies, isReplying, replyText, replyCall, isEditing, editCall, whoVars>>

kVars == <<qA, qB, keyA, keyB, kPc>>

iVars == <<session, value, commentMode, isSubmitting, loginNotices, inflight, gesture, settled>>

rVars == <<dialogOpen, form, formError, reportCalls, reported, reportToast, submitted, reportRes>>

eVars == <<expanded, bodyHeight, bodyEvent, readMore>>

vars == <<pgVars, cVars, vVars, kVars, iVars, rVars, eVars>>

\* what the actions of one component leave alone
notPg == <<cVars, vVars, kVars, iVars, rVars, eVars>>

notC == <<pgVars, vVars, kVars, iVars, rVars, eVars>>

notV == <<pgVars, cVars, kVars, iVars, rVars, eVars>>

notCV == <<pgVars, kVars, iVars, rVars, eVars>>

notK == <<pgVars, cVars, vVars, iVars, rVars, eVars>>

notI == <<pgVars, cVars, vVars, kVars, rVars, eVars>>

notR == <<pgVars, cVars, vVars, kVars, eVars>>

notE == <<pgVars, cVars, vVars, kVars, iVars, rVars>>

\* ------------------------------------------------------------------ bounds
\* largest totalPages handed to Pagination
MaxTotalPages == 13

\* largest number of pages the server reports for a comment list
MaxPages == 3

\* largest rootId, comment id and page of the queries whose keys are compared
MaxKeyId == 2

\* login notices a CommentInput shows before the model stops counting
MaxNotices == 2

\* reportChallengeComment calls of one dialog that may be pending at once
MaxReportCalls == 2

\* users that may be signed in or have written a comment
MaxUsers == 2

\* tallest comment body, in steps of 50 pixels
MaxBodyFifties == 12

\* ------------------------------------------------------------- helpers
Min(a, b) == IF a < b THEN a ELSE b

Max(a, b) == IF a > b THEN a ELSE b

Range(s) == {s[i] : i \in DOMAIN s}

\* Array.from({ length: n }, (_, i) => start + i); a negative length is 0
ArrayFrom(n, start) == [i \in 1..Max(n, 0) |-> start + (i - 1)]

\* ------------------------------------- a component that is not mounted
PgIdle ==
    /\ pgTotalPages = 0
    /\ pgCurrentPage = 1
    /\ pgPages = <<>>
    /\ pgPc = "idle"

CIdle ==
    /\ root = [type |-> "CHALLENGE", id |-> 1]
    /\ page = 1
    /\ text = ""
    /\ prevData = [hasData |-> FALSE, totalPages |-> 0, page |-> 0]
    /\ createCall = [key |-> <<>>, text |-> ""]
    /\ cache = <<>>
    /\ srvTotalPages = 0
    /\ res = "none"
    /\ toast = [title |-> "", description |-> "", variant |-> ""]

\* useState(true) of expanded, before the effect has run; readMore: the user
\* has clicked 'Read more' on the content now shown
EIdle ==
    /\ expanded = TRUE
    /\ bodyHeight = 0
    /\ bodyEvent = [kind |-> "none", n |-> 0]
    /\ readMore = FALSE

\* defaultValues of useForm
defaultValues ==
    [bullying |-> FALSE, hate_speech |-> FALSE, spam |-> FALSE, text |-> "", threat |-> FALSE]

RIdle ==
    /\ dialogOpen = FALSE
    /\ form = defaultValues
    /\ formError = FALSE
    /\ reportCalls = 0
    /\ reported = FALSE
    /\ reportToast = "none"
    /\ submitted = "none"
    /\ reportRes = "none"

IIdle ==
    /\ session = FALSE
    /\ value = ""
    /\ commentMode = "editor"
    /\ isSubmitting = FALSE
    /\ loginNotices = 0
    /\ inflight = <<>>
    /\ gesture = [path |-> "none", user |-> FALSE, n |-> 0]
    /\ settled = [res |-> "none", promise |-> "none"]

KIdle ==
    /\ qA = <<>>
    /\ qB = <<>>
    /\ keyA = <<>>
    /\ keyB = <<>>
    /\ kPc = "idle"

VIdle ==
    /\ showReplies = FALSE
    /\ isReplying = FALSE
    /\ replyText = ""
    /\ replyCall = <<>>
    /\ isEditing = [t \in {"top", "reply"} |-> FALSE]
    /\ editCall = [t \in {"top", "reply"} |-> <<>>]
    /\ sessionUserId = 1
    /\ authorId = [t \in {"top", "reply"} |-> 1]
    /\ readonly = FALSE

\* ------------------------------------------------------------ Pagination
maxVisiblePages == 5

halfVisiblePages == maxVisiblePages \div 2

\* the first clamp forgets the cap of maxVisiblePages on endPage
PageWindowNoCap(currentPage, totalPages) ==
    LET start0 == currentPage - halfVisiblePages
        end0 == currentPage + halfVisiblePages
        start1 == IF start0 <= 0 THEN 1 ELSE start0
        end1 == IF start0 <= 0 THEN totalPages ELSE end0
        end2 == IF end1 > totalPages THEN totalPages ELSE end1
        start2 == IF end1 > totalPages
                    THEN Max(1, totalPages - maxVisiblePages + 1)
                    ELSE start1
    IN  ArrayFrom(end2 - start2 + 1, start2)

\* the second clamp pulls endPage back but leaves startPage where it was
PageWindowShrinks(currentPage, totalPages) ==
    LET start0 == currentPage - halfVisiblePages
        end0 == currentPage + halfVisiblePages
        start1 == IF start0 <= 0 THEN 1 ELSE start0
        end1 == IF start0 <= 0 THEN Min(totalPages, maxVisiblePages) ELSE end0
        end2 == IF end1 > totalPages THEN totalPages ELSE end1
    IN  ArrayFrom(end2 - start1 + 1, start1)

\* const pages = ... of Pagination({ currentPage, totalPages })
PageWindow(currentPage, totalPages) ==
    LET start0 == currentPage - halfVisiblePages
        end0 == currentPage + halfVisiblePages
        start1 == IF start0 <= 0 THEN 1 ELSE start0
        end1 == IF start0 <= 0 THEN Min(totalPages, maxVisiblePages) ELSE end0
        end2 == IF end1 > totalPages THEN totalPages ELSE end1
        start2 == IF end1 > totalPages
                    THEN Max(1, totalPages - maxVisiblePages + 1)
                    ELSE start1
    IN  ArrayFrom(end2 - start2 + 1, start2)

\* ------------------------------------------------- the query cache
\* the roots a Comments container is mounted on (rootId, type props)
Roots == {[type |-> "CHALLENGE", id |-> 1], [type |-> "SOLUTION", id |-> 1]}

\* what the user can have typed into a CommentInput
Texts == {"", "hi"}

\* the outcomes of a comment action: its result tags, or a thrown error
Results == {"ok", "text_is_empty", "unauthorized", "threw"}

\* the outcomes the server action can have for a submitted text: a blank
\* text is never stored, any call can find the session gone or fail
Outcomes(t) == IF t = "" THEN Results \ {"ok"} ELSE Results \ {"text_is_empty"}

NoCall == [key |-> <<>>, text |-> ""]

NoData == [hasData |-> FALSE, totalPages |-> 0, page |-> 0]

\* type.toLowerCase()
ToLowerCase(type) ==
    CASE type = "CHALLENGE" -> "challenge"
      [] type = "SOLUTION" -> "solution"

\* the page is left out of the key
TopKeyNoPage(r, p) == <<ToLowerCase(r.type) \o "-" \o ToString(r.id) \o "-comments">>

\* const queryKey = [`${type.toLowerCase()}-${rootId}-comments`, page]
TopKey(r, p) == <<ToLowerCase(r.type) \o "-" \o ToString(r.id) \o "-comments", p>>

\* the comment.id of the Comment the user works with
commentId == 1

\* const [page, setPage] = useState(1) of Comment; setPage is never called
replyPage == 1

\* const replyQueryKey = `${comment.id}-comment-replies`, used as
\* queryKey: [replyQueryKey, page]
ReplyKey(id, p) == <<ToString(id) \o "-comment-replies", p>>

\* comment.rootChallengeId as a template string prints it: the challenge's
\* id, or null for a comment of another kind of root
RootChallengeId(r) == IF r.type = "CHALLENGE" THEN ToString(r.id) ELSE "null"

\* [`challenge-${comment.rootChallengeId}-comments`]
EditFilterKey(r) == <<"challenge-" \o RootChallengeId(r) \o "-comments">>

\* a query as useQuery creates it: no data yet, the first fetch in flight
LoadingQuery == [hasData |-> FALSE, totalPages |-> 0, st |-> "stale", fetching |-> TRUE]

\* react-query's partial match of a query key against a filter key
MatchesKey(filter, key) ==
    /\ Len(filter) <= Len(key)
    /\ \A i \in 1..Len(filter) : filter[i] = key[i]

\* an observer subscribes to key k: a missing query is created and fetched,
\* a stale one is refetched in the background, a fresh one is served as is
Observe(c, k) ==
    IF k \notin DOMAIN c THEN c @@ (k :> LoadingQuery)
    ELSE IF c[k].st # "fresh" /\ ~c[k].fetching THEN [c EXCEPT ![k].fetching = TRUE]
    ELSE c

\* queryClient.invalidateQueries(filter): every matching query is marked
\* invalidated, and the ones in `active` (with a mounted observer) refetch
InvalidateQueries(c, filter, active) ==
    [k \in DOMAIN c |->
        IF MatchesKey(filter, k)
        THEN [c[k] EXCEPT !.st = IF c[k].hasData THEN "invalidated" ELSE @,
                          !.fetching = @ \/ k \in active]
        ELSE c[k]]

\* ------------------------------------------- the Comments container
queryKey == TopKey(root, page)

\* the render keeps showing what it showed before, whatever has arrived
DataKeepsPrevious ==
    IF prevData.hasData
    THEN prevData
    ELSE IF queryKey \in DOMAIN cache /\ cache[queryKey].hasData
    THEN [hasData |-> TRUE, totalPages |-> cache[queryKey].totalPages, page |-> queryKey[2]]
    ELSE prevData

\* the data useQuery hands to the render, with the page it is the result
\* for: the query's own, or with keepPreviousData the last data shown while
\* the query has none yet
Data ==
    IF queryKey \in DOMAIN cache /\ cache[queryKey].hasData
    THEN [hasData |-> TRUE, totalPages |-> cache[queryKey].totalPages, page |-> queryKey[2]]
    ELSE prevData

\* data?.totalPages ?? 0
DataTotalPages == IF Data.hasData THEN Data.totalPages ELSE 0

\* (data?.totalPages ?? 0) > 1 && <Pagination ... />
PaginationRendered == DataTotalPages > 1

\* the reply list of the Comment
replyQueryKey == ReplyKey(commentId, replyPage)

\* the queries with a mounted observer: the container's, and the reply
\* query of a rendered Comment
ActiveKeys == {queryKey} \cup ({replyQueryKey} \cap DOMAIN cache)

\* Comments is mounted: useState(1), useState(''), useQuery starts the fetch
CInit ==
    /\ EIdle
    /\ RIdle
    /\ IIdle
    /\ PgIdle
    /\ VIdle
    /\ KIdle
    /\ res = "none"
    /\ toast = [title |-> "", description |-> "", variant |-> ""]
    /\ root \in Roots
    /\ page = 1
    /\ text = ""
    /\ prevData = NoData
    /\ createCall = NoCall
    /\ cache = (TopKey(root, 1) :> LoadingQuery)
    /\ srvTotalPages \in 0..MaxPages

\* const handleChangePage = (page) => { setPage(page); ... }
handleChangePage(p) ==
    /\ page' = p
    /\ prevData' = Data
    /\ cache' = Observe(cache, TopKey(root, p))
    /\ UNCHANGED <<root, text, createCall, srvTotalPages, res, toast>>
    /\ UNCHANGED notC

\* the ChevronLeft button: disabled={currentPage === 1}
ClickPrevious ==
    /\ PaginationRendered
    /\ page # 1
    /\ handleChangePage(Max(0, page - 1))

\* a page-number button of the window
ClickPage ==
    /\ PaginationRendered
    /\ \E p \in Range(PageWindow(page, DataTotalPages)) : handleChangePage(p)

\* the ChevronRight button: disabled={currentPage === totalPages}
ClickNext ==
    /\ PaginationRendered
    /\ page # DataTotalPages
    /\ handleChangePage(Min(DataTotalPages, page + 1))

\* getPaginatedComments resolves for query k
FetchDone ==
    \E k \in DOMAIN cache :
        /\ cache[k].fetching
        /\ cache' = [cache EXCEPT ![k] = [hasData |-> TRUE, totalPages |-> srvTotalPages,
                                          st |-> "fresh", fetching |-> FALSE]]
        /\ UNCHANGED <<root, page, text, prevData, createCall, srvTotalPages, res, toast>>
        /\ UNCHANGED notC

\* staleTime: 5000 has passed since query k was fetched
BecomeStale ==
    \E k \in DOMAIN cache :
        /\ cache[k].st = "fresh"
        /\ cache' = [cache EXCEPT ![k].st = "stale"]
        /\ UNCHANGED <<root, page, text, prevData, createCall, srvTotalPages, res, toast>>
        /\ UNCHANGED notC

\* the window regains focus: the stale queries with an observer refetch
WindowFocus ==
    /\ \E k \in ActiveKeys : cache[k].st # "fresh" /\ ~cache[k].fetching
    /\ cache' = [k \in DOMAIN cache |->
                    IF k \in ActiveKeys /\ cache[k].st # "fresh"
                    THEN [cache[k] EXCEPT !.fetching = TRUE] ELSE cache[k]]
    /\ UNCHANGED <<root, page, text, prevData, createCall, srvTotalPages, res, toast>>
    /\ UNCHANGED notC

\* other users add or delete comments of the root
ServerChange ==
    /\ \E n \in {srvTotalPages - 1, srvTotalPages + 1} \cap 0..MaxPages :
          srvTotalPages' = n
    /\ UNCHANGED <<root, page, text, prevData, createCall, cache, res, toast>>
    /\ UNCHANGED notC

\* <CommentInput onChange={setText} value={text} />
TypeText ==
    /\ \E t \in Texts : text' = t
    /\ UNCHANGED <<root, page, prevData, createCall, cache, srvTotalPages, res, toast>>
    /\ UNCHANGED notC

\* CommentInput calls onSubmit: createChallengeComment runs up to its await
StartCreate ==
    /\ createCall = NoCall
    /\ createCall' = [key |-> queryKey, text |-> text]
    /\ UNCHANGED <<root, page, text, prevData, cache, srvTotalPages, res, toast>>
    /\ UNCHANGED notC

\* the toast a comment handler shows for the outcome r of its action (no
\* toast on ok: the one shown before stays); the catch block repeats the
\* title and description of 'unauthorized' with variant: 'destructive'
ToastFor(r, shown) ==
    CASE r = "text_is_empty" ->
            [title |-> "Empty Comment",
             description |-> "You cannot post an empty comment.", variant |-> "default"]
      [] r = "unauthorized" ->
            [title |-> "Unauthorized",
             description |-> "You need to be signed in to post a comment.", variant |-> "default"]
      [] r = "threw" ->
            [title |-> "Unauthorized",
             description |-> "You need to be signed in to post a comment.", variant |-> "destructive"]
      [] OTHER -> shown

\* addComment settles with r and createChallengeComment runs to its end
FinishCreate ==
    /\ createCall # NoCall
    /\ \E r \in Outcomes(createCall.text) :
        /\ res' = r
        /\ toast' = ToastFor(r, toast)
        /\ \/ /\ r = "threw"
              /\ UNCHANGED <<text, cache, srvTotalPages>>
           \/ /\ r \in {"text_is_empty", "unauthorized"}
              /\ text' = ""
              /\ cache' = InvalidateQueries(cache, createCall.key, ActiveKeys)
              /\ UNCHANGED srvTotalPages
           \/ /\ r = "ok"
              /\ text' = ""
              /\ \E n \in {srvTotalPages, srvTotalPages + 1} \cap 1..MaxPages :
                    srvTotalPages' = n
              /\ cache' = InvalidateQueries(cache, createCall.key, ActiveKeys)
    /\ createCall' = NoCall
    /\ UNCHANGED <<root, page, prevData>>
    /\ UNCHANGED notC

\* the container and its create mutation, no other user writing
CNext ==
    \/ ClickPrevious
    \/ ClickPage
    \/ ClickNext
    \/ FetchDone
    \/ BecomeStale
    \/ WindowFocus
    \/ TypeText
    \/ StartCreate
    \/ FinishCreate

Spec == CInit /\ [][CNext]_vars

\* the container's paging while other users add and delete comments
PagingNext ==
    \/ ClickPrevious
    \/ ClickPage
    \/ ClickNext
    \/ FetchDone
    \/ BecomeStale
    \/ WindowFocus
    \/ ServerChange

SpecPaging == CInit /\ [][PagingNext]_vars

\* paging and refetches over a list that does not change meanwhile
FetchNext ==
    \/ ClickPrevious
    \/ ClickPage
    \/ ClickNext
    \/ FetchDone
    \/ BecomeStale
    \/ WindowFocus

SpecFetch == CInit /\ [][FetchNext]_vars

\* ------------------------------------------ Comment and SingleComment
\* the SingleComments a Comment renders: itself, and a reply of its list
Targets == {"top", "reply"}

\* a fetched page of top-level comments
FreshQuery(tp) == [hasData |-> TRUE, totalPages |-> tp, st |-> "fresh", fetching |-> FALSE]

\* the container shows its first page and renders the Comment, whose
\* useQuery starts to fetch the reply list at once; the reader is signed in
\* and is the author of the comment and of its reply
VInit ==
    /\ EIdle
    /\ RIdle
    /\ IIdle
    /\ PgIdle
    /\ KIdle
    /\ root \in Roots
    /\ page = 1
    /\ text = ""
    /\ prevData = NoData
    /\ createCall = NoCall
    /\ srvTotalPages = 1
    /\ cache = (TopKey(root, 1) :> FreshQuery(1)) @@ (replyQueryKey :> LoadingQuery)
    /\ res = "none"
    /\ toast = [title |-> "", description |-> "", variant |-> ""]
    /\ showReplies = FALSE
    /\ isReplying = FALSE
    /\ replyText = ""
    /\ replyCall = <<>>
    /\ isEditing = [t \in Targets |-> FALSE]
    /\ editCall = [t \in Targets |-> <<>>]
    /\ sessionUserId = 1
    /\ authorId = [t \in Targets |-> 1]
    /\ readonly = FALSE

\* the SingleComment of target t is on screen
Rendered(t) == t = "top" \/ (showReplies /\ cache[replyQueryKey].hasData)

\* the cached list that shows target t
DisplayKey(t) == IF t = "top" THEN queryKey ELSE replyQueryKey

\* the readonly a SingleComment is rendered with: Comment hands its own
\* readonly to the comment's SingleComment; the reply list's SingleComments
\* are given none and take the default, false
ReadonlyOf(t) == IF t = "top" THEN readonly ELSE FALSE

\* every signed-in reader gets Edit and Delete
ControlsNoAuthorCheck(t) ==
    IF ReadonlyOf(t) THEN {}
    ELSE {"share"} \cup (IF t # "reply" THEN {"reply"} ELSE {})
                  \cup (IF sessionUserId # 0 THEN {"edit", "delete"} ELSE {"report"})

\* const isAuthor = loggedinUser.data?.user?.id === comment.user.id
isAuthor(t) == sessionUserId # 0 /\ sessionUserId = authorId[t]

\* the controls SingleComment renders for target t; the reply list renders
\* its SingleComments with isReply
Controls(t) ==
    IF ReadonlyOf(t) THEN {}
    ELSE {"share"} \cup (IF t # "reply" THEN {"reply"} ELSE {})
                  \cup (IF isAuthor(t) THEN {"edit", "delete"} ELSE {"report"})

\* const toggleReplies = () => setShowReplies(!showReplies); hiding the
\* replies unmounts their SingleComments
toggleReplies ==
    /\ showReplies' = ~showReplies
    /\ isEditing' = [isEditing EXCEPT !["reply"] = FALSE]
    /\ UNCHANGED <<isReplying, replyText, replyCall, editCall>>
    /\ UNCHANGED whoVars
    /\ UNCHANGED notV

\* const toggleIsReplying = () => setIsReplying(!isReplying)
toggleIsReplying ==
    /\ "reply" \in Controls("top")
    /\ isReplying' = ~isReplying
    /\ UNCHANGED <<showReplies, replyText, replyCall, isEditing, editCall>>
    /\ UNCHANGED whoVars
    /\ UNCHANGED notV

\* the reply input's onCancel
CancelReply ==
    /\ isReplying
    /\ isReplying' = FALSE
    /\ UNCHANGED <<showReplies, replyText, replyCall, isEditing, editCall>>
    /\ UNCHANGED whoVars
    /\ UNCHANGED notV

\* the reply input's onChange={setReplyText}
TypeReply ==
    /\ isReplying
    /\ \E t \in Texts : replyText' = t
    /\ UNCHANGED <<showReplies, isReplying, replyCall, isEditing, editCall>>
    /\ UNCHANGED whoVars
    /\ UNCHANGED notV

\* the reply input calls onSubmit: createChallengeCommentReply runs to its await
StartReply ==
    /\ isReplying
    /\ replyCall = <<>>
    /\ replyCall' = <<replyText>>
    /\ UNCHANGED <<showReplies, isReplying, replyText, isEditing, editCall>>
    /\ UNCHANGED whoVars
    /\ UNCHANGED notV

\* replyComment settles with r: createChallengeCommentReply runs to its end,
\* then onSubmit's setIsReplying(false)
FinishReply ==
    /\ replyCall # <<>>
    /\ \E r \in Outcomes(replyCall[1]) :
        /\ res' = r
        /\ toast' = ToastFor(r, toast)
        /\ \/ /\ r = "threw"
              /\ UNCHANGED <<replyText, cache>>
           \/ /\ r # "threw"
              /\ replyText' = ""
              /\ cache' = InvalidateQueries(cache, ReplyKey(commentId, replyPage), ActiveKeys)
    /\ replyCall' = <<>>
    /\ isReplying' = FALSE
    /\ UNCHANGED <<showReplies, isEditing, editCall>>
    /\ UNCHANGED <<root, page, text, prevData, createCall, srvTotalPages>>
    /\ UNCHANGED whoVars
    /\ UNCHANGED notCV

\* the Edit button of the comment's author: setIsEditing(!isEditing)
ToggleEditing ==
    \E t \in Targets :
        /\ Rendered(t)
        /\ "edit" \in Controls(t)
        /\ isEditing' = [isEditing EXCEPT ![t] = ~@]
        /\ UNCHANGED <<showReplies, isReplying, replyText, replyCall, editCall>>
        /\ UNCHANGED whoVars
        /\ UNCHANGED notV

\* the edit input's onCancel
CancelEdit ==
    \E t \in Targets :
        /\ Rendered(t)
        /\ isEditing[t]
        /\ isEditing' = [isEditing EXCEPT ![t] = FALSE]
        /\ UNCHANGED <<showReplies, isReplying, replyText, replyCall, editCall>>
        /\ UNCHANGED whoVars
        /\ UNCHANGED notV

\* the edit input calls onSubmit with the text x typed into it:
\* updateChallengeComment runs to its await
StartEdit ==
    \E t \in Targets, x \in Texts :
        /\ Rendered(t)
        /\ isEditing[t]
        /\ editCall[t] = <<>>
        /\ editCall' = [editCall EXCEPT ![t] = <<x>>]
        /\ UNCHANGED <<showReplies, isReplying, replyText, replyCall, isEditing>>
        /\ UNCHANGED whoVars
        /\ UNCHANGED notV

\* updateComment settles with r: updateChallengeComment runs to its end,
\* then onSubmit's setIsEditing(false)
FinishEdit ==
    \E t \in Targets :
        /\ editCall[t] # <<>>
        /\ \E r \in Outcomes(editCall[t][1]) :
            /\ res' = r
            /\ toast' = ToastFor(r, toast)
            /\ \/ /\ r = "threw"
                  /\ UNCHANGED cache
               \/ /\ r # "threw"
                  /\ cache' = InvalidateQueries(cache, EditFilterKey(root), ActiveKeys)
        /\ editCall' = [editCall EXCEPT ![t] = <<>>]
        /\ isEditing' = [isEditing EXCEPT ![t] = FALSE]
        /\ UNCHANGED <<showReplies, isReplying, replyText, replyCall>>
        /\ UNCHANGED <<root, page, text, prevData, createCall, srvTotalPages>>
        /\ UNCHANGED whoVars
        /\ UNCHANGED notCV

VNext ==
    \/ FetchDone
    \/ BecomeStale
    \/ WindowFocus
    \/ toggleReplies
    \/ toggleIsReplying
    \/ CancelReply
    \/ TypeReply
    \/ StartReply
    \/ FinishReply
    \/ ToggleEditing
    \/ CancelEdit
    \/ StartEdit
    \/ FinishEdit

SpecComment == VInit /\ [][VNext]_vars

\* the step in which updateComment settles with outcome r for target t
EditSettles(t, r) == editCall[t] # <<>> /\ editCall'[t] = <<>> /\ res' = r

\* C4: after updateComment succeeds the cached list that displays the
\* edited comment is invalidated, for a top-level comment and for a reply
\* (shown by the parent's reply list), and for every root type.
C4_EditInvalidatesDisplayedList ==
    [][\A t \in Targets :
          EditSettles(t, "ok") => cache'[DisplayKey(t)].st # "fresh"]_vars

\* the step in which replyComment settles with outcome r
ReplySettles(r) == replyCall # <<>> /\ replyCall' = <<>> /\ res' = r

\* C5: after replyComment returns ok both affected cache entries are
\* invalidated: the parent's reply list and the top-level page that holds
\* the parent comment and its reply count.
C5_ReplyInvalidatesBothLists ==
    [][ReplySettles("ok") =>
         /\ cache'[replyQueryKey].st # "fresh"
         /\ cache'[queryKey].st # "fresh"]_vars

\* ------------------------------------- the controls of the comment view
\* Comment is rendered with its replies loaded, for any reader (signed in or
\* not), any authors of the comment and of its reply, readonly or not
XInit ==
    /\ EIdle
    /\ RIdle
    /\ IIdle
    /\ PgIdle
    /\ KIdle
    /\ root = [type |-> "CHALLENGE", id |-> 1]
    /\ page = 1
    /\ text = ""
    /\ prevData = NoData
    /\ createCall = NoCall
    /\ srvTotalPages = 1
    /\ cache = (TopKey(root, 1) :> FreshQuery(1)) @@ (replyQueryKey :> FreshQuery(1))
    /\ res = "none"
    /\ toast = [title |-> "", description |-> "", variant |-> ""]
    /\ showReplies = FALSE
    /\ isReplying = FALSE
    /\ replyText = ""
    /\ replyCall = <<>>
    /\ isEditing = [t \in Targets |-> FALSE]
    /\ editCall = [t \in Targets |-> <<>>]
    /\ sessionUserId \in 0..MaxUsers
    /\ authorId \in [Targets -> 1..MaxUsers]
    /\ readonly \in BOOLEAN

\* useSession: the reader signs in, signs out or switches account
SessionUserChange ==
    /\ \E u \in (0..MaxUsers) \ {sessionUserId} : sessionUserId' = u
    /\ UNCHANGED <<showReplies, isReplying, replyText, replyCall, isEditing, editCall>>
    /\ UNCHANGED <<authorId, readonly>>
    /\ UNCHANGED notV

XNext ==
    \/ SessionUserChange
    \/ toggleReplies
    \/ toggleIsReplying
    \/ CancelReply
    \/ TypeReply
    \/ ToggleEditing
    \/ CancelEdit

SpecControls == XInit /\ [][XNext]_vars

\* C15: in every state of the comment view Edit and Delete are available
\* only when the session user's id equals the comment author's id, a reader
\* who is shown controls and is not the author gets Report instead, and Reply
\* is never available on a reply-level comment.
C15_ControlsGuarded ==
    \A t \in Targets :
        Rendered(t) =>
            /\ ({"edit", "delete"} \cap Controls(t) # {}) =>
                  (sessionUserId # 0 /\ sessionUserId = authorId[t])
            /\ (Controls(t) # {} /\ ~(sessionUserId # 0 /\ sessionUserId = authorId[t])) =>
                  ("report" \in Controls(t) /\ {"edit", "delete"} \cap Controls(t) = {})
            /\ (t = "reply") => "reply" \notin Controls(t)

\* C21: when a Comment is rendered with readonly = true, neither the comment
\* itself nor any of its replies shown after expanding offers Share, Reply,
\* Edit, Delete or Report.
C21_ReadonlyOffersNoControl ==
    readonly => \A t \in Targets : Rendered(t) => Controls(t) = {}

C15_Witness ==
    /\ showReplies
    /\ ~readonly
    /\ sessionUserId = 2
    /\ authorId = [top |-> 1, reply |-> 2]
    /\ isEditing = [top |-> FALSE, reply |-> TRUE]
    /\ Controls("top") = {"share", "reply", "report"}
    /\ Controls("reply") = {"share", "edit", "delete"}

\* a getPaginatedComments request with parentId = comment.id is pending
RepliesRequested == replyQueryKey \in DOMAIN cache /\ cache[replyQueryKey].fetching

\* C14: replies are fetched on demand: when the Comment is mounted, collapsed,
\* no getPaginatedComments request for its replies is pending, and no step
\* that leaves the comment collapsed issues one.
C14_RepliesFetchedOnDemand ==
    /\ (~showReplies => ~RepliesRequested)
    /\ [][(~showReplies /\ ~showReplies') => (RepliesRequested' => RepliesRequested)]_vars

\* ------------------------------------------------ the container's claims
\* C3: whenever the Pagination control is rendered (totalPages > 1), after
\* any previous/next/page clicks and refetches that change totalPages, the
\* current page is within 1..totalPages.
C3_PageWithinTotalPages ==
    PaginationRendered => (1 <= page /\ page <= DataTotalPages)

\* a getPaginatedComments request of the container is pending
PageRequested == \E k \in DOMAIN cache : cache[k].fetching

\* C16: after a page change the previous page's comments may be shown until
\* the new page arrives and are then replaced; with several page requests in
\* flight, completing in any order, the list displayed once they are done is
\* the result for the currently selected page.
C16_DisplayedPageIsSelectedPage ==
    /\ (queryKey \in DOMAIN cache /\ cache[queryKey].hasData) => Data.page = page
    /\ ~PageRequested => (Data.hasData /\ Data.page = page)

C16_Witness ==
    /\ page = 3
    /\ Data.page = 3
    /\ prevData.page = 1
    /\ ~PageRequested
    /\ \A p \in 1..3 : TopKey(root, p) \in DOMAIN cache /\ cache[TopKey(root, p)].hasData

\* the step in which addComment settles with outcome r
CreateSettles(r) == createCall # NoCall /\ createCall' = NoCall /\ res' = r

\* the cached pages of the top-level list of root r
IsPageOf(r, k) == MatchesKey(<<TopKey(r, 1)[1]>>, k)

\* C6: after addComment returns ok, every cache entry of the top-level list
\* of that (rootType, rootId) is invalidated, none of them is still served
\* as fresh, and no entry of another list is touched.
C6_CreateInvalidatesItsList ==
    [][CreateSettles("ok") =>
         /\ \A k \in DOMAIN cache : IsPageOf(root, k) => cache'[k].st # "fresh"
         /\ \A k \in DOMAIN cache : ~IsPageOf(root, k) => cache'[k] = cache[k]]_vars

\* C8: when a create attempt fails (text_is_empty, unauthorized, or a throw)
\* no cache entry is invalidated and the typed text is still in the input.
C8_FailedCreateLeavesDataAlone ==
    [][(\E r \in {"text_is_empty", "unauthorized", "threw"} : CreateSettles(r)) =>
         /\ cache' = cache
         /\ text' = text]_vars

\* C12: a thrown failure of the create action (a network failure) is
\* reported with a generic something-went-wrong notice whose text is not the
\* text of the notice for an unauthenticated user, and the action is not
\* called again by the handler.
C12_ThrownFailureHasItsOwnNotice ==
    [][CreateSettles("threw") =>
         /\ <<toast'.title, toast'.description>> #
               <<"Unauthorized", "You need to be signed in to post a comment.">>
         /\ createCall' = NoCall]_vars

\* ------------------------------------------------------- CommentInput
\* CommentInput is mounted with an empty value; the user may be signed in
IInit ==
    /\ EIdle
    /\ RIdle
    /\ PgIdle
    /\ CIdle
    /\ VIdle
    /\ KIdle
    /\ session \in BOOLEAN
    /\ value = ""
    /\ commentMode = "editor"
    /\ isSubmitting = FALSE
    /\ loginNotices = 0
    /\ inflight = <<>>
    /\ gesture = [path |-> "none", user |-> FALSE, n |-> 0]
    /\ settled = [res |-> "none", promise |-> "none"]

\* the submit path of `path` is entered, with or without a session user
Gesture(path) == [path |-> path, user |-> session, n |-> 1 - gesture.n]

\* handleEnterKey submits without looking at the session
handleEnterKeyNoSessionCheck ==
    /\ commentMode = "editor"
    /\ gesture' = Gesture("key")
    /\ IF isSubmitting
       THEN UNCHANGED <<session, value, commentMode, isSubmitting, loginNotices, inflight, settled>>
       ELSE /\ isSubmitting' = TRUE
            /\ inflight' = Append(inflight, "key")
            /\ UNCHANGED <<session, value, commentMode, loginNotices, settled>>
    /\ UNCHANGED notI

\* handleEnterKey submits although a submit is in progress
handleEnterKeyNoBusyGuard ==
    /\ commentMode = "editor"
    /\ gesture' = Gesture("key")
    /\ IF ~session
       THEN /\ loginNotices < MaxNotices
            /\ loginNotices' = loginNotices + 1
            /\ UNCHANGED <<session, value, commentMode, isSubmitting, inflight, settled>>
       ELSE /\ isSubmitting' = TRUE
            /\ inflight' = Append(inflight, "key")
            /\ UNCHANGED <<session, value, commentMode, loginNotices, settled>>
    /\ UNCHANGED notI

\* handleEnterKey for Shift+Enter in the text area, up to its await; while a
\* submit is in progress the key press is dropped
handleEnterKey ==
    /\ commentMode = "editor"
    /\ gesture' = Gesture("key")
    /\ IF isSubmitting
       THEN UNCHANGED <<session, value, commentMode, isSubmitting, loginNotices, inflight, settled>>
       ELSE /\ IF ~session
               THEN /\ loginNotices < MaxNotices
                    /\ loginNotices' = loginNotices + 1
                    /\ UNCHANGED <<session, value, commentMode, isSubmitting, inflight, settled>>
               ELSE /\ isSubmitting' = TRUE
                    /\ inflight' = Append(inflight, "key")
                    /\ UNCHANGED <<session, value, commentMode, loginNotices, settled>>
    /\ UNCHANGED notI

\* the Comment button's onClick, up to its await; without a session user
\* the finally block runs at once
ClickComment ==
    /\ ~(Len(value) = 0 \/ isSubmitting)
    /\ gesture' = Gesture("click")
    /\ IF ~session
       THEN /\ loginNotices < MaxNotices
            /\ loginNotices' = loginNotices + 1
            /\ isSubmitting' = FALSE
            /\ commentMode' = "editor"
            /\ UNCHANGED <<session, value, inflight, settled>>
       ELSE /\ isSubmitting' = TRUE
            /\ inflight' = Append(inflight, "click")
            /\ UNCHANGED <<session, value, commentMode, loginNotices, settled>>
    /\ UNCHANGED notI

\* s without its i-th element
RemoveAt(s, i) == [j \in 1..(Len(s) - 1) |-> IF j < i THEN s[j] ELSE s[j + 1]]

\* onSubmit lets the action's throw through
onSubmitPromiseNoCatch(r) ==
    CASE r = "threw" -> "rejected"
      [] OTHER -> "resolved"

\* the promise onSubmit returns when its action settles with r: each onSubmit
\* the inputs are given awaits the action inside try / catch
onSubmitPromise(r) ==
    CASE r = "threw" -> "resolved"
      [] OTHER -> "resolved"

\* a pending onSubmit settles, its action having settled with r (the handler
\* may have cleared the text), and the submit path runs to its end: the key
\* path has no try around its await, the button path ends in finally
OnSubmitResolves ==
    /\ \E i \in 1..Len(inflight), r \in Results :
        /\ inflight' = RemoveAt(inflight, i)
        /\ settled' = [res |-> r, promise |-> onSubmitPromise(r)]
        /\ isSubmitting' =
              IF inflight[i] = "key" /\ settled'.promise = "rejected"
              THEN isSubmitting ELSE FALSE
        /\ commentMode' = IF inflight[i] = "click" THEN "editor" ELSE commentMode
    /\ \E v \in {value, ""} : value' = v
    /\ UNCHANGED <<session, loginNotices, gesture>>
    /\ UNCHANGED notI

\* the Textarea's onChange
TypeValue ==
    /\ commentMode = "editor"
    /\ \E t \in Texts : value' = t
    /\ UNCHANGED <<session, commentMode, isSubmitting, loginNotices, inflight, gesture, settled>>
    /\ UNCHANGED notI

\* the Preview / Edit button
ToggleCommentMode ==
    /\ commentMode' = IF commentMode = "editor" THEN "preview" ELSE "editor"
    /\ UNCHANGED <<session, value, isSubmitting, loginNotices, inflight, gesture, settled>>
    /\ UNCHANGED notI

\* the user signs in or out, or the session expires
SessionChange ==
    /\ session' = ~session
    /\ UNCHANGED <<value, commentMode, isSubmitting, loginNotices, inflight, gesture, settled>>
    /\ UNCHANGED notI

INext ==
    \/ handleEnterKey
    \/ ClickComment
    \/ OnSubmitResolves
    \/ TypeValue
    \/ ToggleCommentMode
    \/ SessionChange

SpecInput == IInit /\ [][INext]_vars

\* a pending server action settles: its request is answered or fails
SpecInputLive == SpecInput /\ WF_vars(OnSubmitResolves)

\* C9 as stated: CommentInput never calls onSubmit when there is no session
\* user: on both submit paths (the Comment button, Shift+Enter in the text
\* area) it shows the login notice, returns without calling onSubmit, and
\* isSubmitting is false afterwards.
C9_NoSubmitWithoutSession ==
    [][/\ (~session => Len(inflight') <= Len(inflight))
       /\ (gesture' # gesture /\ ~gesture'.user) =>
             /\ loginNotices' = loginNotices + 1
             /\ inflight' = inflight
             /\ ~isSubmitting']_vars

\* C9 amended: CommentInput never calls onSubmit when there is no session
\* user. On both submit paths, when no submit is already in progress, it
\* shows the login notice, returns without calling onSubmit and isSubmitting
\* is false afterwards; while a submit is in progress Shift+Enter is ignored:
\* no onSubmit call, no notice, and isSubmitting stays true.
C9_NoSubmitWithoutSessionUnlessBusy ==
    [][/\ (~session => Len(inflight') <= Len(inflight))
       /\ (gesture' # gesture /\ ~gesture'.user /\ ~isSubmitting) =>
             /\ loginNotices' = loginNotices + 1
             /\ inflight' = inflight
             /\ ~isSubmitting'
       /\ (gesture' # gesture /\ ~gesture'.user /\ isSubmitting) =>
             /\ loginNotices' = loginNotices
             /\ inflight' = inflight
             /\ isSubmitting']_vars

C9_Witness ==
    /\ ~gesture.user
    /\ gesture.path = "key"
    /\ loginNotices = 2
    /\ value = "hi"
    /\ inflight = <<>>
    /\ ~isSubmitting

\* C13: every submission started from a CommentInput, by the Comment button
\* or by Shift+Enter, eventually completes whatever the outcome of its action
\* (ok, text_is_empty, unauthorized, thrown): no rejection escapes onSubmit
\* and isSubmitting returns to false.
C13_SubmissionCompletes ==
    /\ [](settled.promise # "rejected")
    /\ (inflight # <<>>) ~> (inflight = <<>> /\ ~isSubmitting)

C13_Witness ==
    /\ settled = [res |-> "threw", promise |-> "resolved"]
    /\ gesture.path = "key"
    /\ gesture.user
    /\ inflight = <<>>
    /\ ~isSubmitting

\* C19: a CommentInput has at most one submission in flight: from the call
\* of onSubmit until it settles neither a click on the Comment button nor a
\* further Shift+Enter calls onSubmit again.
C19_OneSubmissionInFlight ==
    [][inflight # <<>> => Len(inflight') <= Len(inflight)]_vars

C19_Witness ==
    /\ inflight = <<"click">>
    /\ isSubmitting
    /\ gesture.path = "key"
    /\ gesture.user

\* C20: CommentInput never calls onSubmit while its value is the empty
\* string, on either submit path.
C20_NoSubmitOfEmptyValue ==
    [][Len(inflight') > Len(inflight) => value # ""]_vars

\* ------------------------------------------------- the report dialog
Flags == {"bullying", "hate_speech", "spam", "threat"}

\* the schema without its refine: every form is accepted
commentReportSchemaNoRefine(obj) == TRUE

\* the refine of commentReportSchema
commentReportSchema(obj) ==
    obj.spam \/ obj.threat \/ obj.hate_speech \/ obj.bullying \/ obj.text # ""

\* the result of reportChallengeComment for the caller's session and the
\* reports the server holds, or a thrown error
ReportOutcomes(user, already) ==
    {"threw"} \cup (IF ~user THEN {"unauthorized"}
                    ELSE IF already THEN {"already_exists"} ELSE {"created"})

\* the comment is rendered with its dialog closed; the reader may be signed
\* in and may have reported the comment before
RInit ==
    /\ EIdle
    /\ PgIdle
    /\ CIdle
    /\ VIdle
    /\ KIdle
    /\ session \in BOOLEAN
    /\ value = ""
    /\ commentMode = "editor"
    /\ isSubmitting = FALSE
    /\ loginNotices = 0
    /\ inflight = <<>>
    /\ gesture = [path |-> "none", user |-> FALSE, n |-> 0]
    /\ settled = [res |-> "none", promise |-> "none"]
    /\ dialogOpen = FALSE
    /\ form = defaultValues
    /\ formError = FALSE
    /\ reportCalls = 0
    /\ reported \in BOOLEAN
    /\ reportToast = "none"
    /\ submitted = "none"
    /\ reportRes = "none"

\* the Report button: setDialogOpen(true)
OpenReportDialog ==
    /\ ~dialogOpen
    /\ dialogOpen' = TRUE
    /\ UNCHANGED <<form, formError, reportCalls, reported, reportToast, submitted, reportRes>>
    /\ UNCHANGED <<notR, iVars>>

\* onOpenChange of the Dialog: setDialogOpen(!dialogOpen)
onOpenChange ==
    /\ dialogOpen
    /\ dialogOpen' = ~dialogOpen
    /\ UNCHANGED <<form, formError, reportCalls, reported, reportToast, submitted, reportRes>>
    /\ UNCHANGED <<notR, iVars>>

\* a Checkbox's onCheckedChange; mode: 'onChange' validates the form
CheckFlag ==
    /\ dialogOpen
    /\ \E f \in Flags :
        /\ form' = [form EXCEPT ![f] = ~@]
        /\ formError' = ~commentReportSchema(form')
    /\ UNCHANGED <<dialogOpen, reportCalls, reported, reportToast, submitted, reportRes>>
    /\ UNCHANGED <<notR, iVars>>

\* the Textarea's onChange; mode: 'onChange' validates the form
TypeReportText ==
    /\ dialogOpen
    /\ \E t \in Texts :
        /\ form' = [form EXCEPT !.text = t]
        /\ formError' = ~commentReportSchema(form')
    /\ UNCHANGED <<dialogOpen, reportCalls, reported, reportToast, submitted, reportRes>>
    /\ UNCHANGED <<notR, iVars>>

\* the Delete icon: form.setValue('text', ''), which does not validate
ClearReportText ==
    /\ dialogOpen
    /\ Len(form.text) > 0
    /\ form' = [form EXCEPT !.text = ""]
    /\ UNCHANGED <<dialogOpen, formError, reportCalls, reported, reportToast, submitted, reportRes>>
    /\ UNCHANGED <<notR, iVars>>

\* form.handleSubmit(handleCommentReport): the resolver validates, and
\* handleCommentReport runs up to its await
SubmitReport ==
    /\ dialogOpen
    /\ IF commentReportSchema(form)
       THEN /\ reportCalls < MaxReportCalls
            /\ reportCalls' = reportCalls + 1
            /\ formError' = FALSE
            /\ submitted' = "called"
       ELSE /\ formError' = TRUE
            /\ submitted' = "rejected"
            /\ UNCHANGED reportCalls
    /\ UNCHANGED <<dialogOpen, form, reported, reportToast, reportRes>>
    /\ UNCHANGED <<notR, iVars>>

\* every result is answered with the success notice
ReportNoticeAlwaysReported(r) == "Reported"

\* the title of the toast handleCommentReport shows for result r
ReportNotice(r) ==
    CASE r = "unauthorized" -> "Unauthorized"
      [] r = "already_exists" -> "Already Reported"
      [] r = "threw" -> "Uh Oh!"
      [] OTHER -> "Reported"

\* reportChallengeComment settles: handleCommentReport runs to its end
ReportSettles ==
    /\ reportCalls > 0
    /\ reportCalls' = reportCalls - 1
    /\ UNCHANGED submitted
    /\ \E r \in ReportOutcomes(session, reported) :
        /\ reportRes' = r
        /\ reportToast' = ReportNotice(r)
        /\ IF r \in {"unauthorized", "already_exists", "threw"}
           THEN UNCHANGED <<dialogOpen, form, formError, reported>>
           ELSE /\ dialogOpen' = FALSE
                /\ form' = defaultValues
                /\ formError' = FALSE
                /\ reported' = TRUE
    /\ UNCHANGED <<notR, iVars>>

RNext ==
    \/ OpenReportDialog
    \/ onOpenChange
    \/ CheckFlag
    \/ TypeReportText
    \/ ClearReportText
    \/ SubmitReport
    \/ ReportSettles
    \/ SessionChange

SpecReport == RInit /\ [][RNext]_vars

\* C10: the report form does not call the report action when there is no
\* active session: with a valid form and no session user, submitting makes
\* no call to reportChallengeComment.
C10_NoReportCallWithoutSession ==
    [][~session => reportCalls' <= reportCalls]_vars

\* C11: the report form calls reportChallengeComment only when the form data
\* has a flag set or a non-empty text; a submission with all four flags false
\* and an empty text is rejected by the schema and makes no call.
C11_CallOnlyWithIssueOrReason ==
    [][/\ reportCalls' > reportCalls =>
             (form.spam \/ form.threat \/ form.hate_speech \/ form.bullying \/ form.text # "")
       /\ (submitted' = "rejected") => reportCalls' <= reportCalls]_vars

C11_Witness ==
    /\ submitted = "rejected"
    /\ form = defaultValues
    /\ formError
    /\ dialogOpen
    /\ reportCalls = 0
    /\ reportToast = "none"

\* C18: the report dialog maps each outcome of the report action to its own
\* notice and closes only on success: unauthorized, already_exists and a
\* thrown error show the Unauthorized, Already Reported and error notices and
\* leave the dialog and the form values as they are; any other result shows
\* the success notice, closes the dialog and resets the form to its defaults.
C18_OutcomeNoticesAndClose ==
    [][reportCalls' < reportCalls =>
         /\ (reportRes' = "unauthorized") =>
               (reportToast' = "Unauthorized" /\ dialogOpen' = dialogOpen /\ form' = form)
         /\ (reportRes' = "already_exists") =>
               (reportToast' = "Already Reported" /\ dialogOpen' = dialogOpen /\ form' = form)
         /\ (reportRes' = "threw") =>
               (reportToast' = "Uh Oh!" /\ dialogOpen' = dialogOpen /\ form' = form)
         /\ (reportRes' \notin {"unauthorized", "already_exists", "threw"}) =>
               (reportToast' = "Reported" /\ ~dialogOpen' /\ form' = defaultValues)]_vars

C18_Witness ==
    /\ reportRes = "already_exists"
    /\ reportToast = "Already Reported"
    /\ reported
    /\ session
    /\ dialogOpen
    /\ form.spam
    /\ reportCalls = 0

\* ------------------------------------------- ExpandableContent
\* the height above which a body is truncated, and of a truncated body
truncateHeight == 300

\* heights the rendered Markdown can have, depending on content and width
Heights == {50 * k : k \in 1..MaxBodyFifties} \cup {truncateHeight - 1, truncateHeight + 1}

\* contentWrapperRef.current.clientHeight: h-full when expanded,
\* max-h-[300px] with overflow-hidden when not
clientHeight(exp, h) == IF exp THEN h ELSE Min(h, truncateHeight)

\* handleResize sets expanded from the height, both ways
handleResizeBothWays(exp, h) == ~(clientHeight(exp, h) > truncateHeight)

\* handleResize: the value of expanded after it ran
handleResize(exp, h) == IF clientHeight(exp, h) > truncateHeight THEN FALSE ELSE exp

\* the body is rendered, useState(true); the effect has not run yet
EInit ==
    /\ PgIdle
    /\ CIdle
    /\ VIdle
    /\ KIdle
    /\ IIdle
    /\ RIdle
    /\ expanded = TRUE
    /\ bodyHeight \in Heights
    /\ bodyEvent = [kind |-> "none", n |-> 0]
    /\ readMore = FALSE

BodyEvent(kind) == [kind |-> kind, n |-> 1 - bodyEvent.n]

\* useEffect after the first render: the listener is added, handleResize()
MountEffect ==
    /\ bodyEvent.kind = "none"
    /\ bodyEvent' = BodyEvent("mount")
    /\ expanded' = handleResize(expanded, bodyHeight)
    /\ UNCHANGED <<bodyHeight, readMore>>
    /\ UNCHANGED notE

\* the window is resized: the text wraps anew and the listener runs
WindowResize ==
    /\ bodyEvent.kind # "none"
    /\ bodyEvent' = BodyEvent("resize")
    /\ UNCHANGED readMore
    /\ \E h \in Heights :
        /\ bodyHeight' = h
        /\ expanded' = handleResize(expanded, h)
    /\ UNCHANGED notE

\* the content prop changes: the effect's cleanup and the effect run again
ContentChange ==
    /\ bodyEvent.kind # "none"
    /\ bodyEvent' = BodyEvent("content")
    /\ readMore' = FALSE
    /\ \E h \in Heights :
        /\ bodyHeight' = h
        /\ expanded' = handleResize(expanded, h)
    /\ UNCHANGED notE

\* the click on 'Read more', rendered when !expanded
ClickReadMore ==
    /\ bodyEvent.kind # "none"
    /\ ~expanded
    /\ bodyEvent' = BodyEvent("click")
    /\ expanded' = TRUE
    /\ readMore' = TRUE
    /\ UNCHANGED bodyHeight
    /\ UNCHANGED notE

ENext ==
    \/ MountEffect
    \/ WindowResize
    \/ ContentChange
    \/ ClickReadMore

SpecExpand == EInit /\ [][ENext]_vars

\* C17: a comment body taller than 300px is shown truncated once mounted,
\* and a truncated body becomes fully shown only by the click on 'Read more':
\* no resize and no other automatic event expands it.
C17_ExpandsOnlyByClick ==
    [][/\ (bodyEvent' = BodyEvent("mount") /\ bodyHeight' > 300) => ~expanded'
       /\ (~expanded /\ expanded') => bodyEvent' = BodyEvent("click")]_vars

\* C22: once the user has clicked 'Read more' on a truncated body, the body
\* stays fully shown for as long as the content does not change: a later
\* window resize does not truncate it again.
C22_StaysShownAfterReadMore ==
    readMore => expanded

C17_Witness ==
    /\ ~expanded
    /\ bodyEvent.kind = "resize"
    /\ bodyHeight = 100

\* ------------------------------------------- SpecKeys: the query keys
\* the inputs of getPaginatedComments; parentId 0 is a top-level query
QueryInputs ==
    [rootId : 1..MaxKeyId, rootType : {"CHALLENGE", "SOLUTION"},
     page : 1..MaxKeyId, parentId : 0..MaxKeyId]

\* the key useQuery is given for the query: Comments' for a top-level list,
\* Comment's for the reply list of comment parentId
KeyOf(q) ==
    IF q.parentId = 0
    THEN TopKey([type |-> q.rootType, id |-> q.rootId], q.page)
    ELSE ReplyKey(q.parentId, q.page)

\* two queries; a comment belongs to one root, so two queries for the
\* replies of the same comment name the same root
KInit ==
    /\ EIdle
    /\ RIdle
    /\ IIdle
    /\ PgIdle
    /\ CIdle
    /\ VIdle
    /\ qA \in QueryInputs
    /\ qB \in QueryInputs
    /\ (qA.parentId # 0 /\ qA.parentId = qB.parentId) =>
          (qA.rootId = qB.rootId /\ qA.rootType = qB.rootType)
    /\ keyA = <<>>
    /\ keyB = <<>>
    /\ kPc = "render"

\* both components render and hand their keys to useQuery
KRender ==
    /\ kPc = "render"
    /\ keyA' = KeyOf(qA)
    /\ keyB' = KeyOf(qB)
    /\ kPc' = "queried"
    /\ UNCHANGED <<qA, qB>>
    /\ UNCHANGED notK

KNext == KRender

SpecKeys == KInit /\ [][KNext]_vars

\* C7: two comment-list queries with different inputs never share a cache
\* key: a top-level list and a reply list, the reply lists of two parents,
\* and two pages of one list all get different keys.
C7_DistinctQueriesDistinctKeys ==
    (kPc = "queried" /\ qA # qB) => keyA # keyB

C7_Witness ==
    /\ kPc = "queried"
    /\ qA = [rootId |-> 1, rootType |-> "CHALLENGE", page |-> 1, parentId |-> 0]
    /\ qB = [rootId |-> 1, rootType |-> "CHALLENGE", page |-> 1, parentId |-> 1]
    /\ keyA = <<"challenge-1-comments", 1>>
    /\ keyB = <<"1-comment-replies", 1>>

\* ------------------------------------------ SpecPagination: the function
PgInit ==
    /\ EIdle
    /\ RIdle
    /\ IIdle
    /\ CIdle
    /\ VIdle
    /\ KIdle
    /\ pgTotalPages \in 0..MaxTotalPages
    /\ pgCurrentPage \in 1..(MaxTotalPages + 1)
    /\ pgPages = <<>>
    /\ pgPc = "call"

PgRender ==
    /\ pgPc = "call"
    /\ pgPages' = PageWindow(pgCurrentPage, pgTotalPages)
    /\ pgPc' = "rendered"
    /\ UNCHANGED <<pgTotalPages, pgCurrentPage>>
    /\ UNCHANGED notPg

PgNext == PgRender

SpecPagination == PgInit /\ [][PgNext]_vars

\* the currentPage values the Comments container is meant to pass
PgInContract == pgCurrentPage <= Max(pgTotalPages, 1)

\* C1: for totalPages >= 0 and 1 <= currentPage <= max(totalPages, 1) the
\* page list has at most 5 entries and contains currentPage when
\* totalPages >= 1.
C1_WindowBoundedAndHasCurrent ==
    (pgPc = "rendered" /\ PgInContract) =>
        /\ Len(pgPages) <= 5
        /\ (pgTotalPages >= 1 => pgCurrentPage \in Range(pgPages))

C1_Witness ==
    /\ pgPc = "rendered"
    /\ pgTotalPages = 12
    /\ pgCurrentPage = 12
    /\ Len(pgPages) = 5
    /\ pgCurrentPage \in Range(pgPages)

\* the range C2 describes, written from the claim's cases
ExpectedWindow(currentPage, totalPages) ==
    LET lo == IF totalPages < 5 THEN 1
              ELSE IF currentPage - 2 < 1 THEN 1
              ELSE IF currentPage + 2 > totalPages THEN totalPages - 4
              ELSE currentPage - 2
        hi == IF totalPages < 5 THEN totalPages
              ELSE IF currentPage - 2 < 1 THEN 5
              ELSE IF currentPage + 2 > totalPages THEN totalPages
              ELSE currentPage + 2
    IN  [i \in 1..(hi - lo + 1) |-> lo + i - 1]

\* C2: in the contract the page list is exactly the contiguous range: empty
\* for totalPages = 0, 1..totalPages below 5 pages, and from 5 pages on a
\* range of exactly 5 pages inside 1..totalPages, centred on currentPage when
\* that fits and shifted to 1..5 or totalPages-4..totalPages otherwise.
C2_WindowIsExpectedRange ==
    (pgPc = "rendered" /\ PgInContract) =>
        /\ pgPages = ExpectedWindow(pgCurrentPage, pgTotalPages)
        /\ (pgTotalPages = 0 => pgPages = <<>>)
        /\ (pgTotalPages >= 5 =>
              /\ Len(pgPages) = 5
              /\ Range(pgPages) \subseteq 1..pgTotalPages)
        /\ (pgTotalPages = 12 /\ pgCurrentPage = 1 => pgPages = <<1, 2, 3, 4, 5>>)
        /\ (pgTotalPages = 12 /\ pgCurrentPage = 6 => pgPages = <<4, 5, 6, 7, 8>>)
        /\ (pgTotalPages = 12 /\ pgCurrentPage = 12 => pgPages = <<8, 9, 10, 11, 12>>)

C2_Witness ==
    /\ pgPc = "rendered"
    /\ pgTotalPages = 12
    /\ pgCurrentPage = 11
    /\ pgPages = <<8, 9, 10, 11, 12>>

====
